---------------------------- MODULE Spec2Model ----------------------------
(***************************************************************************)
(* EDGARClient.get_filings and EDGARClient._parse_filings of               *)
(* src/edgar_client/client.py as a state machine.                          *)
(*                                                                         *)
(* Text is a sequence of one-character strings, so that the conversions    *)
(* the code applies (int(), format(), strptime(), replace(), split(),      *)
(* strip()) are computed character by character.  A JSON value of a column *)
(* is a tagged record (Cell); an Optional[...] attribute is a sequence of  *)
(* length 0 (None) or 1 (the value).                                       *)
(***************************************************************************)
EXTENDS Integers, Sequences, FiniteSets, TLC

(***************************************************************************)
(* Text helpers (Python str methods)                                       *)
(***************************************************************************)
Digits == {"0", "1", "2", "3", "4", "5", "6", "7", "8", "9"}

DigitChars == <<"0", "1", "2", "3", "4", "5", "6", "7", "8", "9">>

Whitespace == {" ", "\t", "\n"}

DigitVal(c) == CHOOSE k \in 0..9 : DigitChars[k + 1] = c

IsDigits(s) == \A k \in 1..Len(s) : s[k] \in Digits

RECURSIVE DecVal(_)
\* value of a non-empty all-digit text
DecVal(s) ==
    IF Len(s) = 0 THEN 0
    ELSE 10 * DecVal(SubSeq(s, 1, Len(s) - 1)) + DigitVal(s[Len(s)])

RECURSIVE LStrip(_)
LStrip(s) == IF Len(s) > 0 /\ s[1] \in Whitespace THEN LStrip(Tail(s)) ELSE s

RECURSIVE RStrip(_)
RStrip(s) ==
    IF Len(s) > 0 /\ s[Len(s)] \in Whitespace
    THEN RStrip(SubSeq(s, 1, Len(s) - 1))
    ELSE s

\* str.strip()
Strip(s) == RStrip(LStrip(s))

\* position of the first c in s, 0 when there is none
IndexOf(s, c) ==
    IF \E k \in 1..Len(s) : s[k] = c
    THEN CHOOSE k \in 1..Len(s) : s[k] = c /\ \A j \in 1..(k - 1) : s[j] # c
    ELSE 0

RECURSIVE Split(_, _)
\* str.split(sep) for a one-character separator: always at least one piece
Split(s, sep) ==
    LET k == IndexOf(s, sep)
    IN  IF k = 0 THEN <<s>>
        ELSE <<SubSeq(s, 1, k - 1)>> \o Split(SubSeq(s, k + 1, Len(s)), sep)

StartsWith(s, p) == Len(s) >= Len(p) /\ SubSeq(s, 1, Len(p)) = p

RECURSIVE Replace(_, _, _)
\* str.replace(old, new), old non-empty: leftmost non-overlapping occurrences
Replace(s, old, new) ==
    IF Len(s) = 0 THEN s
    ELSE IF StartsWith(s, old)
         THEN new \o Replace(SubSeq(s, Len(old) + 1, Len(s)), old, new)
         ELSE <<s[1]>> \o Replace(Tail(s), old, new)


RECURSIVE Concat(_)
\* "".join(pieces)
Concat(ss) == IF Len(ss) = 0 THEN <<>> ELSE Head(ss) \o Concat(Tail(ss))

RECURSIVE LStripZeros(_)
LStripZeros(s) ==
    IF Len(s) > 1 /\ s[1] = "0" THEN LStripZeros(Tail(s)) ELSE s

(***************************************************************************)
(* int(cik) and f"{...:010d}" (lines 264, 219, 186, 141).  A Python int is *)
(* unbounded: it is kept as a sign and a magnitude in canonical decimal    *)
(* digits (no leading zero, "0" for zero).                                 *)
(***************************************************************************)
IntWidth == 10

NoInt == [ok |-> FALSE, neg |-> FALSE, mag |-> <<"0">>]

IntOfGroupsLenient(neg, grps) == [ok |-> TRUE, neg |-> FALSE, mag |-> <<"0">>]

\* the digit groups of a numeral body, all non-empty and all digits
IntOfGroups(neg, grps) ==
    IF \A k \in 1..Len(grps) : Len(grps[k]) > 0 /\ IsDigits(grps[k])
    THEN [ok |-> TRUE, neg |-> neg, mag |-> LStripZeros(Concat(grps))]
    ELSE NoInt

\* -0 is 0
IntOfSigned(v) == IF v.mag = <<"0">> THEN [v EXCEPT !.neg = FALSE] ELSE v

IntOfStripped(t) ==
    IF Len(t) > 0 /\ t[1] \in {"+", "-"}
    THEN IntOfSigned(IntOfGroups(t[1] = "-", Split(Tail(t), "_")))
    ELSE IntOfGroups(FALSE, Split(t, "_"))

\* int(s) for a str: surrounding whitespace, one optional sign, then groups
\* of digits joined by single underscores; anything else is a ValueError
PyIntOfText(s) == IntOfStripped(Strip(s))

Zeros(k) == [j \in 1..k |-> "0"]

\* format(v, "010d"): sign-aware zero padding to a MINIMUM width of 10
Format010d(v) ==
    LET sign == IF v.neg THEN <<"-">> ELSE <<>>
        pad  == IntWidth - Len(sign) - Len(v.mag)
    IN  sign \o Zeros(IF pad > 0 THEN pad ELSE 0) \o v.mag

(***************************************************************************)
(* datetime.strptime (lines 314-318, 339-341).  A datetime is the tuple    *)
(* <<year, month, day, hour, minute, second>>; the timezone-aware          *)
(* acceptance time carries its UTC offset in seconds beside it.            *)
(***************************************************************************)
NoDate == [ok |-> FALSE, dt |-> <<0, 0, 0, 0, 0, 0>>, off |-> 0]

IsLeap(y) == (y % 4 = 0 /\ y % 100 # 0) \/ y % 400 = 0

DaysIn(y, m) ==
    IF m = 2 THEN (IF IsLeap(y) THEN 29 ELSE 28)
    ELSE IF m \in {4, 6, 9, 11} THEN 30 ELSE 31

\* a directive's pattern: one or two digits with a value in lo..hi
MatchNum(p, lo, hi) ==
    /\ Len(p) \in {1, 2}
    /\ IsDigits(p)
    /\ DecVal(p) >= lo
    /\ DecVal(p) <= hi

\* %d also matches a space followed by a non-zero digit
MatchDay(p) ==
    \/ MatchNum(p, 1, 31)
    \/ (Len(p) = 2 /\ p[1] = " " /\ p[2] \in Digits \ {"0"})

DayVal(p) == IF p[1] = " " THEN DigitVal(p[2]) ELSE DecVal(p)

\* the three fields of a date, already cut at the hyphens
DateOfParts(ps) ==
    IF /\ Len(ps) = 3
       /\ Len(ps[1]) = 4 /\ IsDigits(ps[1]) /\ DecVal(ps[1]) >= 1
       /\ MatchNum(ps[2], 1, 12)
       /\ MatchDay(ps[3])
       /\ DayVal(ps[3]) <= DaysIn(DecVal(ps[1]), DecVal(ps[2]))
    THEN [ok |-> TRUE,
          dt |-> <<DecVal(ps[1]), DecVal(ps[2]), DayVal(ps[3]), 0, 0, 0>>,
          off |-> 0]
    ELSE NoDate

\* strptime(s, "%Y-%m-%d") for a str
StrpDate(s) == DateOfParts(Split(s, "-"))

\* length of the longest all-digit prefix
DigitPrefixLen(s) ==
    CHOOSE k \in 0..Len(s) :
        /\ \A j \in 1..k : s[j] \in Digits
        /\ (k < Len(s) => s[k + 1] \notin Digits)

NoZone == [ok |-> FALSE, off |-> 0]

\* the digits of "[0-5]\d(\.\d{1,6})?"
ZoneSecondsDigits(r) ==
    IF /\ Len(r) >= 2
       /\ IsDigits(SubSeq(r, 1, 2))
       /\ DecVal(SubSeq(r, 1, 2)) <= 59
       /\ \/ Len(r) = 2
          \/ (r[3] = "." /\ Len(r) - 3 \in 1..6 /\ IsDigits(SubSeq(r, 4, Len(r))))
    THEN [ok |-> TRUE, off |-> DecVal(SubSeq(r, 1, 2))]
    ELSE NoZone

\* the tail "(:?[0-5]\d(\.\d{1,6})?)?" of %z: seconds of the offset
ZoneSeconds(q) ==
    IF Len(q) = 0 THEN [ok |-> TRUE, off |-> 0]
    ELSE ZoneSecondsDigits(IF q[1] = ":" THEN Tail(q) ELSE q)

\* the minutes m (and what follows them) of an offset with sign and hours z
ZoneOfMinutes(z, m, zs) ==
    IF /\ IsDigits(SubSeq(z, 2, 3))
       /\ DecVal(SubSeq(z, 2, 3)) <= 23
       /\ Len(m) >= 2
       /\ IsDigits(SubSeq(m, 1, 2))
       /\ DecVal(SubSeq(m, 1, 2)) <= 59
       /\ zs.ok
    THEN [ok |-> TRUE,
          off |-> (IF z[1] = "-" THEN -1 ELSE 1)
                  * (3600 * DecVal(SubSeq(z, 2, 3))
                     + 60 * DecVal(SubSeq(m, 1, 2)) + zs.off)]
    ELSE NoZone

ZoneOfSigned(z, m) == ZoneOfMinutes(z, m, ZoneSeconds(SubSeq(m, 3, Len(m))))

\* %z: "Z", or [+-]HH[:]MM with an optional seconds part
StrpZone(z) ==
    IF z = <<"Z">> THEN [ok |-> TRUE, off |-> 0]
    ELSE IF Len(z) >= 5 /\ z[1] \in {"+", "-"}
         THEN ZoneOfSigned(z, IF z[4] = ":" THEN SubSeq(z, 5, Len(z))
                              ELSE SubSeq(z, 4, Len(z)))
         ELSE NoZone

\* position of the first T or t, 0 when there is none
IndexOfT(s) ==
    IF \E k \in 1..Len(s) : s[k] \in {"T", "t"}
    THEN CHOOSE k \in 1..Len(s) :
             s[k] \in {"T", "t"} /\ \A j \in 1..(k - 1) : s[j] \notin {"T", "t"}
    ELSE 0

\* date d, hour hh, minute mm, second ss and zone z put together
TimestampOf(d, hh, mm, ss, z) ==
    IF /\ d.ok
       /\ MatchNum(hh, 0, 23)
       /\ MatchNum(mm, 0, 59)
       /\ MatchNum(ss, 0, 59)
       /\ z.ok
    THEN [ok |-> TRUE,
          dt |-> <<d.dt[1], d.dt[2], d.dt[3], DecVal(hh), DecVal(mm), DecVal(ss)>>,
          off |-> z.off]
    ELSE NoDate

\* r3 is what follows the second colon: the seconds, ks digits, then the zone
TimestampSeconds(d, hh, mm, r3, ks) ==
    TimestampOf(d, hh, mm, SubSeq(r3, 1, ks), StrpZone(SubSeq(r3, ks + 1, Len(r3))))

\* r2 is what follows the first colon and k2 the place of the second in it
TimestampMinutes(d, hh, r2, k2) ==
    IF k2 = 0 THEN NoDate
    ELSE TimestampSeconds(d, hh, SubSeq(r2, 1, k2 - 1),
                          SubSeq(r2, k2 + 1, Len(r2)),
                          DigitPrefixLen(SubSeq(r2, k2 + 1, Len(r2))))

\* r1 is what follows the T and k1 the place of the first colon in it
TimestampHours(d, r1, k1) ==
    IF k1 = 0 THEN NoDate
    ELSE TimestampMinutes(d, SubSeq(r1, 1, k1 - 1), SubSeq(r1, k1 + 1, Len(r1)),
                          IndexOf(SubSeq(r1, k1 + 1, Len(r1)), ":"))

TimestampAt(s, kT) ==
    IF kT = 0 THEN NoDate
    ELSE TimestampHours(StrpDate(SubSeq(s, 1, kT - 1)), SubSeq(s, kT + 1, Len(s)),
                        IndexOf(SubSeq(s, kT + 1, Len(s)), ":"))

\* strptime(s, "%Y-%m-%dT%H:%M:%S%z") for a str (the literal T of the format
\* is matched ignoring case)
StrpTimestamp(s) == TimestampAt(s, IndexOfT(s))

\* datetime.__lt__ on two naive datetimes: lexicographic on the tuple
DtLess(a, b) ==
    \E k \in 1..6 : a[k] < b[k] /\ \A j \in 1..(k - 1) : a[j] = b[j]

(***************************************************************************)
(* JSON values and the parallel-array block read by _parse_filings         *)
(***************************************************************************)
JStr(s) == [t |-> "str", s |-> s, n |-> 0]

JInt(n) == [t |-> "int", s |-> <<>>, n |-> n]

JNull == [t |-> "null", s |-> <<>>, n |-> 0]

\* Python truthiness of a JSON value
Truthy(c) ==
    CASE c.t = "str" -> Len(c.s) > 0
      [] c.t = "int" -> c.n # 0
      [] OTHER -> FALSE

Required == {"accessionNumber", "form", "filingDate", "acceptanceDateTime", "size"}

Defaulted == {"isXBRL", "isInlineXBRL", "primaryDocument", "primaryDocDescription"}

Conditional == {"reportDate", "act", "items"}

Columns == Required \cup Defaulted \cup Conditional

\* the exception types the loop body's except clause catches (line 354)
Caught == {"KeyError", "IndexError", "ValueError"}

\* data[col][i]: the value, Null where the lookup fails
CellAt(data, col, i) ==
    IF data[col].present /\ i <= Len(data[col].a) THEN data[col].a[i] ELSE JNull

\* the exception of data[col][i]
SubscriptExc(data, col, i) ==
    IF ~data[col].present THEN "KeyError"
    ELSE IF i > Len(data[col].a) THEN "IndexError"
    ELSE "none"

\* the exception of data.get(col, [default] * num_filings)[i]
GetExc(data, col, i) ==
    IF data[col].present /\ i > Len(data[col].a) THEN "IndexError" ELSE "none"

\* data.get(col, [default] * num_filings)[i]
GetCell(data, col, i, default) ==
    IF data[col].present THEN CellAt(data, col, i) ELSE default

HasValueIgnoringEmpty(data, col, i) ==
    data[col].present /\ i <= Len(data[col].a)

\* data.get(col) and i < len(data[col]) and data[col][i]   (lines 334-338, 343, 346)
HasValue(data, col, i) ==
    /\ data[col].present
    /\ Len(data[col].a) > 0
    /\ i <= Len(data[col].a)
    /\ Truthy(data[col].a[i])

\* strptime(value, "%Y-%m-%d"): a TypeError for a value that is no str
DateExc(c) ==
    IF c.t # "str" THEN "TypeError"
    ELSE IF ~StrpDate(c.s).ok THEN "ValueError"
    ELSE "none"

Millis == <<".", "0", "0", "0", "Z">>

UtcOffset == <<"+", "0", "0", "0", "0">>

\* strptime(value.replace(".000Z", "+0000"), ...): an AttributeError for a
\* value that has no replace method
TimestampExc(c) ==
    IF c.t # "str" THEN "AttributeError"
    ELSE IF ~StrpTimestamp(Replace(c.s, Millis, UtcOffset)).ok THEN "ValueError"
    ELSE "none"

\* value.split(","): an AttributeError for a truthy value that is no str
ItemsExc(c) == IF c.t # "str" THEN "AttributeError" ELSE "none"

RECURSIVE SelectNonEmpty(_)
SelectNonEmpty(ps) ==
    IF Len(ps) = 0 THEN <<>>
    ELSE (IF Len(Strip(Head(ps))) > 0 THEN <<Strip(Head(ps))>> ELSE <<>>)
         \o SelectNonEmpty(Tail(ps))

SplitItemsUntrimmed(raw) == SelectSeq(Split(raw, ","), LAMBDA p : Len(Strip(p)) > 0)

\* [item.strip() for item in raw.split(",") if item.strip()]   (lines 347-351)
SplitItems(raw) == SelectNonEmpty(Split(raw, ","))

\* pydantic's validation of a str field
ValidStr(c) == c.t = "str"

\* pydantic's (lax) validation of an int field: an int, or a str holding one
ValidInt(c) == c.t = "int" \/ (c.t = "str" /\ PyIntOfText(c.s).ok)

SignedVal(v) == (IF v.neg THEN -1 ELSE 1) * DecVal(v.mag)

IntOf(c) == IF c.t = "int" THEN c.n ELSE SignedVal(PyIntOfText(c.s))

\* value or ""
OrEmpty(c) == IF Truthy(c) THEN c ELSE JStr(<<>>)

\* Filing.model_validate(filing_dict): a ValidationError is a ValueError
ValidateExc(data, i) ==
    IF /\ ValidStr(CellAt(data, "accessionNumber", i))
       /\ ValidStr(CellAt(data, "form", i))
       /\ ValidInt(CellAt(data, "size", i))
       /\ ValidStr(OrEmpty(GetCell(data, "primaryDocument", i, JStr(<<>>))))
       /\ ValidStr(OrEmpty(GetCell(data, "primaryDocDescription", i, JStr(<<>>))))
       /\ (HasValue(data, "act", i) => ValidStr(CellAt(data, "act", i)))
    THEN "none"
    ELSE "ValueError"

\* the first exception of a sequence of evaluation steps
FirstExc(es) ==
    IF \E k \in 1..Len(es) : es[k] # "none"
    THEN es[CHOOSE k \in 1..Len(es) :
                es[k] # "none" /\ \A j \in 1..(k - 1) : es[j] = "none"]
    ELSE "none"

\* the exception raised by the body of the loop at index i, in the order in
\* which lines 311-353 evaluate
RowExc(data, i) ==
    FirstExc(<<SubscriptExc(data, "accessionNumber", i),
               SubscriptExc(data, "form", i),
               SubscriptExc(data, "filingDate", i),
               DateExc(CellAt(data, "filingDate", i)),
               SubscriptExc(data, "acceptanceDateTime", i),
               TimestampExc(CellAt(data, "acceptanceDateTime", i)),
               SubscriptExc(data, "size", i),
               GetExc(data, "isXBRL", i),
               GetExc(data, "isInlineXBRL", i),
               GetExc(data, "primaryDocument", i),
               GetExc(data, "primaryDocDescription", i),
               IF HasValue(data, "reportDate", i)
               THEN DateExc(CellAt(data, "reportDate", i)) ELSE "none",
               IF HasValue(data, "items", i)
               THEN ItemsExc(CellAt(data, "items", i)) ELSE "none",
               ValidateExc(data, i)>>)

\* filing_dict["report_date"], set only under the condition of lines 334-338
ReportDateOf(data, i) ==
    IF HasValue(data, "reportDate", i)
    THEN <<StrpDate(CellAt(data, "reportDate", i).s).dt>>
    ELSE <<>>

\* the Filing built at index i when the body raises nothing; ts is the parsed
\* acceptanceDateTime
FilingOf(data, i, ts) ==
    [accession_number |-> CellAt(data, "accessionNumber", i).s,
     form             |-> CellAt(data, "form", i).s,
     filing_date      |-> StrpDate(CellAt(data, "filingDate", i).s).dt,
     report_date      |-> ReportDateOf(data, i),
     acceptance_time  |-> [dt |-> ts.dt, off |-> ts.off],
     act              |-> IF HasValue(data, "act", i)
                          THEN <<CellAt(data, "act", i).s>> ELSE <<>>,
     size             |-> IntOf(CellAt(data, "size", i)),
     items            |-> IF HasValue(data, "items", i)
                          THEN <<SplitItems(CellAt(data, "items", i).s)>>
                          ELSE <<>>,
     is_xbrl          |-> Truthy(GetCell(data, "isXBRL", i, JInt(0))),
     is_inline_xbrl   |-> Truthy(GetCell(data, "isInlineXBRL", i, JInt(0))),
     primary_document |->
         OrEmpty(GetCell(data, "primaryDocument", i, JStr(<<>>))).s,
     primary_document_description |->
         OrEmpty(GetCell(data, "primaryDocDescription", i, JStr(<<>>))).s]

FilingAt(data, i) ==
    FilingOf(data, i,
             StrpTimestamp(Replace(CellAt(data, "acceptanceDateTime", i).s,
                                   Millis, UtcOffset)))

NoParse == [filings |-> <<>>, diag |-> <<>>, exc |-> "none"]

RECURSIVE ParseFrom(_, _, _)

\* the body of the loop at index i, where it raises e
ParseStep(data, i, out, e) ==
    IF e = "none"
    THEN ParseFrom(data, i + 1, [out EXCEPT !.filings = Append(@, FilingAt(data, i))])
    ELSE IF e \in Caught
    THEN ParseFrom(data, i + 1, [out EXCEPT !.diag = Append(@, [i |-> i, exc |-> e])])
    ELSE [out EXCEPT !.exc = e]

\* the loop of lines 309-356 from index i on; out is what the earlier indices
\* left.  Indices are 1-based here (the code's i is this i - 1).
ParseFrom(data, i, out) ==
    IF i > Len(data["accessionNumber"].a) THEN out
    ELSE ParseStep(data, i, out, RowExc(data, i))

\* _parse_filings(data): the filings, the printed warnings, and the exception
\* that leaves the function ("none" when it returns)
ParseFilings(data) ==
    IF ~data["accessionNumber"].present
    THEN [NoParse EXCEPT !.exc = "KeyError"]
    ELSE ParseFrom(data, 1, NoParse)

(***************************************************************************)
(* get_filings (lines 242-295)                                             *)
(***************************************************************************)
VARIABLES
    pc,              \* where the call is: start, fetch_primary, fetch_overflow, done, raised
    cik,             \* argument cik (a str)
    start_date,      \* argument start_date: <<>> (None) or <<datetime>>
    end_date,        \* argument end_date
    forms,           \* argument forms: <<>> (None) or <<list of form texts>>
    limit,           \* argument limit: <<>> (None) or <<int>>
    remote,          \* what the data service holds: the primary document's
                     \* filings.recent block and the overflow files it lists
    normalized_cik,  \* local normalized_cik
    fetchLog,        \* the calls made to _get, in order, each with its outcome
    file_idx,        \* position of the loop over data["filings"]["files"]
    all_filings,     \* local all_filings
    diagnostics,     \* the warnings printed by _parse_filings, per document
    result,          \* <<>> while nothing is returned, else <<filtered_filings>>
    error            \* the exception that left get_filings, "none" if none

vars == <<pc, cik, start_date, end_date, forms, limit, remote, normalized_cik,
          fetchLog, file_idx, all_filings, diagnostics, result, error>>

args == <<cik, start_date, end_date, forms, limit, remote>>

\* urljoin(DATA_URL, f"submissions/CIK{normalized_cik}.json")   (line 265)
PrimaryUrl(norm) == <<"https://data.sec.gov/", "submissions/CIK">> \o norm \o <<".json">>

\* urljoin(DATA_URL, f"submissions/{file['name']}")   (line 275)
FileUrl(name) == <<"https://data.sec.gov/", "submissions/">> \o name

RaiseNever(ok) == "none"

\* response.raise_for_status()   (line 107)
RaiseForStatus(ok) == IF ok THEN "none" ELSE "HTTPError"

ExtendFront(list, more) == more \o list

\* list.extend(more)   (lines 272, 280)
Extend(list, more) == list \o more

\* the three tests of lines 284-289 that skip a filing
Excluded(f, sd, ed, fs) ==
    \/ (Len(sd) = 1 /\ DtLess(f.filing_date, sd[1]))
    \/ (Len(ed) = 1 /\ DtLess(ed[1], f.filing_date))
    \/ (/\ Len(fs) = 1
        /\ Len(fs[1]) > 0
        /\ ~(\E k \in 1..Len(fs[1]) : fs[1][k] = f.form))

\* "limit and len(filtered_filings) >= limit"   (line 292)
LimitReached(out, lim) == Len(lim) = 1 /\ lim[1] # 0 /\ Len(out) >= lim[1]

RECURSIVE FilterFrom(_, _, _, _, _, _, _)
\* the loop of lines 283-293 from position k on
FilterFrom(all, k, out, sd, ed, fs, lim) ==
    IF k > Len(all) THEN out
    ELSE IF Excluded(all[k], sd, ed, fs)
         THEN FilterFrom(all, k + 1, out, sd, ed, fs, lim)
         ELSE IF LimitReached(Append(out, all[k]), lim)
              THEN Append(out, all[k])
              ELSE FilterFrom(all, k + 1, Append(out, all[k]), sd, ed, fs, lim)

\* v is int(cik)
Normalized(v) ==
    IF v.ok
    THEN /\ normalized_cik' = Format010d(v)
         /\ pc' = "fetch_primary"
         /\ error' = error
    ELSE /\ pc' = "raised"
         /\ error' = "ValueError"
         /\ normalized_cik' = normalized_cik

\* lines 264-265: int(cik) raises ValueError before anything is fetched
NormalizeCik ==
    /\ pc = "start"
    /\ Normalized(PyIntOfText(cik))
    /\ UNCHANGED <<args, fetchLog, file_idx, all_filings, diagnostics, result>>

\* what get_filings does with the outcome of one _get: http is what
\* raise_for_status raised, parsed what _parse_filings made of the document
Received(doc, http, parsed) ==
    IF http # "none"
    THEN /\ pc' = "raised"
         /\ error' = http
         /\ UNCHANGED <<file_idx, all_filings, diagnostics>>
    ELSE /\ diagnostics' = Append(diagnostics, parsed.diag)
         /\ IF parsed.exc # "none"
            THEN /\ pc' = "raised"
                 /\ error' = parsed.exc
                 /\ UNCHANGED <<file_idx, all_filings>>
            ELSE /\ pc' = "fetch_overflow"
                 /\ error' = error
                 /\ file_idx' = doc + 1
                 /\ all_filings' = Extend(all_filings, parsed.filings)

\* one _get and the _parse_filings of what it returned, for document number
\* doc (0 the primary document) at location url holding block data
FetchAndParse(doc, url, data, ok) ==
    /\ fetchLog' = Append(fetchLog, [url |-> url, ok |-> ok])
    /\ Received(doc, RaiseForStatus(ok), ParseFilings(data))
    /\ UNCHANGED <<args, normalized_cik, result>>

\* lines 266-272: the primary document, which the service answers or not
FetchPrimary ==
    /\ pc = "fetch_primary"
    /\ \E ok \in BOOLEAN :
          FetchAndParse(0, PrimaryUrl(normalized_cik), remote.recent, ok)

\* lines 274-280: the next overflow file of data["filings"]["files"]
FetchOverflow ==
    /\ pc = "fetch_overflow"
    /\ file_idx <= Len(remote.files)
    /\ \E ok \in BOOLEAN :
          FetchAndParse(file_idx, FileUrl(remote.files[file_idx].name),
                        remote.files[file_idx].data, ok)

\* lines 282-295: the loop over the files is over; filter and return
FilterAndReturn ==
    /\ pc = "fetch_overflow"
    /\ file_idx > Len(remote.files)
    /\ result' = <<FilterFrom(all_filings, 1, <<>>, start_date, end_date, forms, limit)>>
    /\ pc' = "done"
    /\ UNCHANGED <<args, normalized_cik, fetchLog, file_idx, all_filings,
                   diagnostics, error>>

Next == NormalizeCik \/ FetchPrimary \/ FetchOverflow \/ FilterAndReturn

(***************************************************************************)
(* Inputs: the arguments of a call and the documents of the data service   *)
(***************************************************************************)
MaxRecords == 2     \* records over all documents of a varied service
MaxFiles == 2       \* overflow files listed by the primary document
MaxRows == 2        \* records of a block with a defect
MaxItemsLen == 4    \* characters of a raw items value
MaxCikLen == 3      \* characters of an identifier
MaxLimit == 3       \* largest limit argument

Date1 == <<"2", "0", "2", "4", "-", "0", "1", "-", "0", "5">>

Date2 == <<"2", "0", "2", "4", "-", "0", "2", "-", "1", "0">>

Date3 == <<"2", "0", "2", "4", "-", "0", "3", "-", "0", "1">>

BadDate == <<"2", "0", "2", "4", "-", "1", "3", "-", "0", "1">>

Stamp == <<"2", "0", "2", "4", "-", "0", "3", "-", "1", "5", "T", "1", "6", ":", "3", "0", ":", "0", "0", ".", "0", "0", "0", "Z">>

Form10K == <<"1", "0", "-", "K">>

Form8K == <<"8", "-", "K">>

Form4 == <<"4">>

Junk == <<"?">>

Midnight(s) == StrpDate(s).dt

\* the accession number of record idx of document doc
Accession(doc, idx) == <<"A", DigitChars[doc + 1], "-", DigitChars[idx + 1]>>

\* a well-formed record with every optional value present
FullRow(doc, idx, form, date) ==
    [c \in Columns |->
        CASE c = "accessionNumber" -> JStr(Accession(doc, idx))
          [] c = "form" -> JStr(form)
          [] c = "filingDate" -> JStr(date)
          [] c = "acceptanceDateTime" -> JStr(Stamp)
          [] c = "size" -> JInt(100)
          [] c = "isXBRL" -> JInt(1)
          [] c = "isInlineXBRL" -> JInt(0)
          [] c = "primaryDocument" -> JStr(<<"d">>)
          [] c = "primaryDocDescription" -> JStr(<<"D">>)
          [] c = "reportDate" -> JStr(Date1)
          [] c = "act" -> JStr(<<"3", "4">>)
          [] c = "items" -> JStr(<<"2", ",", " ", "9">>)]

\* a well-formed record whose optional values are empty
BareRow(doc, idx, form, date) ==
    [c \in Columns |->
        IF c \in Required THEN FullRow(doc, idx, form, date)[c]
        ELSE IF c \in {"isXBRL", "isInlineXBRL"} THEN JInt(0)
        ELSE JStr(<<>>)]

\* the parallel arrays of a sequence of records
BlockOf(rows) ==
    [c \in Columns |-> [present |-> TRUE, a |-> [i \in 1..Len(rows) |-> rows[i][c]]]]

RowKinds == {"10-K", "8-K", "skip", "raise"}

\* a record of the varied service: two well-formed kinds, one whose
\* filingDate is no date, one whose filingDate is null
KindRow(kind, doc, idx) ==
    CASE kind = "10-K" -> FullRow(doc, idx, Form10K, Date1)
      [] kind = "8-K" -> BareRow(doc, idx, Form8K, Date2)
      [] kind = "skip" -> [FullRow(doc, idx, Form10K, Date1) EXCEPT !["filingDate"] = JStr(BadDate)]
      [] kind = "raise" -> [FullRow(doc, idx, Form10K, Date1) EXCEPT !["filingDate"] = JNull]

FileName(doc) == <<"CIK-", DigitChars[doc + 1], ".json">>

\* document doc of a service whose records, of kinds flat, are cut into
\* documents after positions cuts[1] <= cuts[2] <= ...
Segment(flat, cuts, doc) ==
    LET lo == IF doc = 0 THEN 0 ELSE cuts[doc]
        hi == IF doc = Len(cuts) THEN Len(flat) ELSE cuts[doc + 1]
    IN  BlockOf([i \in 1..(hi - lo) |-> KindRow(flat[lo + i], doc, i)])

ServiceOf(flat, cuts) ==
    [recent |-> Segment(flat, cuts, 0),
     files  |-> [d \in 1..Len(cuts) |->
                    [name |-> FileName(d), data |-> Segment(flat, cuts, d)]]]

Monotone(cuts) == \A j \in 1..(Len(cuts) - 1) : cuts[j] <= cuts[j + 1]

VariedServices ==
    { ServiceOf(flat, cuts) :
        <<flat, cuts>> \in
            UNION { { <<f, c>> : f \in [1..n -> RowKinds],
                                 c \in UNION { {x \in [1..k -> 0..n] : Monotone(x)} :
                                               k \in 0..MaxFiles } } :
                    n \in 0..MaxRecords } }

\* five well-formed filings, newest first, three of them 10-K, over the
\* primary document and one overflow file
FiveFilings ==
    [recent |-> BlockOf(<<FullRow(0, 1, Form10K, Date3),
                          BareRow(0, 2, Form8K, Date2),
                          FullRow(0, 3, Form10K, Date2)>>),
     files |-> <<[name |-> FileName(1),
                  data |-> BlockOf(<<BareRow(1, 1, Form8K, Date1),
                                     FullRow(1, 2, Form10K, Date1)>>)]>>]

\* the overflow file of a service whose primary block is under study
OneOverflow == <<[name |-> FileName(1), data |-> BlockOf(<<BareRow(1, 1, Form8K, Date1)>>)]>>

Defects == {"absent", "short", "null", "int", "bad", "empty"}

\* block b with column c damaged at index i
Damaged(b, c, i, how) ==
    CASE how = "absent" -> [b EXCEPT ![c] = [present |-> FALSE, a |-> <<>>]]
      [] how = "short" -> [b EXCEPT ![c].a = SubSeq(@, 1, i - 1)]
      [] how = "null" -> [b EXCEPT ![c].a[i] = JNull]
      [] how = "int" -> [b EXCEPT ![c].a[i] = JInt(5)]
      [] how = "bad" -> [b EXCEPT ![c].a[i] = JStr(Junk)]
      [] how = "empty" -> [b EXCEPT ![c].a[i] = JStr(<<>>)]

GoodBlocks ==
    UNION { { BlockOf([i \in 1..n |->
                  IF full[i] THEN FullRow(0, i, Form10K, Date1)
                  ELSE BareRow(0, i, Form8K, Date2)]) :
              full \in [1..n -> BOOLEAN] } : n \in 1..MaxRows }

\* the length of accessionNumber is the number of records: it is never short
DamagedBlocks ==
    GoodBlocks \cup
    { Damaged(b, d[1], d[2], d[3]) :
        <<b, d>> \in { <<b, d>> \in GoodBlocks \X (Columns \X (1..MaxRows) \X Defects) :
                         /\ d[2] <= Len(b["accessionNumber"].a)
                         /\ ~(d[1] = "accessionNumber" /\ d[3] = "short") } }

ItemChars == {"a", ",", " "}

ItemTexts == UNION { [1..n -> ItemChars] : n \in 0..MaxItemsLen }

CikChars == {"7", "0", "-", "_", " ", "x"}

CikTexts == UNION { [1..n -> CikChars] : n \in 0..MaxCikLen }

Apple == <<"3", "2", "0", "1", "9", "3">>

ElevenDigits == <<"1", "2", "3", "4", "5", "6", "7", "8", "9", "0", "1">>

Ciks == CikTexts \cup {Apple, ElevenDigits}

SomeDates == {<<>>, <<Midnight(Date1)>>, <<Midnight(Date2)>>, <<Midnight(Date3)>>}

FormLists ==
    {<<>>, <<<<>>>>, <<<<Form10K>>>>, <<<<Form8K>>>>, <<<<Form10K, Form8K>>>>, <<<<Form4>>>>}

Limits == {<<>>} \cup {<<n>> : n \in 0..MaxLimit}

\* the state of a call that has just been made
Called(c, sd, ed, fs, lim, svc) ==
    /\ pc = "start"
    /\ cik = c
    /\ start_date = sd
    /\ end_date = ed
    /\ forms = fs
    /\ limit = lim
    /\ remote = svc
    /\ normalized_cik = <<>>
    /\ fetchLog = <<>>
    /\ file_idx = 0
    /\ all_filings = <<>>
    /\ diagnostics = <<>>
    /\ result = <<>>
    /\ error = "none"

\* calls on a varied service, with and without filters
InitVaried ==
    \E svc \in VariedServices :
    \E f \in { <<<<>>, <<>>, <<>>>>,
               <<<<>>, <<>>, <<1>>>>,
               <<<<Midnight(Date2)>>, <<<<Form8K>>>>, <<>>>> } :
        Called(Apple, f[1], <<>>, f[2], f[3], svc)

\* calls with every combination of filters on five well-formed filings
InitFiltered ==
    \E sd \in SomeDates, ed \in SomeDates, fs \in FormLists, lim \in Limits :
        Called(Apple, sd, ed, fs, lim, FiveFilings)

\* calls on a service whose primary block has at most one defect
InitDamaged ==
    \E b \in DamagedBlocks, fl \in {<<>>, OneOverflow} :
        Called(Apple, <<>>, <<>>, <<>>, <<>>, [recent |-> b, files |-> fl])

\* calls on a service whose one record has any raw items value
InitItems ==
    \E t \in ItemTexts :
        Called(Apple, <<>>, <<>>, <<>>, <<>>,
               [recent |-> BlockOf(<<[FullRow(0, 1, Form10K, Date1)
                                        EXCEPT !["items"] = JStr(t)]>>),
                files |-> <<>>])

\* calls with any identifier
InitCik ==
    \E c \in Ciks :
        Called(c, <<>>, <<>>, <<>>, <<>>,
               [recent |-> BlockOf(<<FullRow(0, 1, Form10K, Date1)>>), files |-> OneOverflow])

Init == InitVaried \/ InitFiltered \/ InitDamaged \/ InitItems \/ InitCik

Spec == Init /\ [][Next]_vars

(***************************************************************************)
(* What the claims speak of                                                *)
(***************************************************************************)
\* the blocks of the service in the order get_filings reads them
Documents == <<remote.recent>> \o [d \in 1..Len(remote.files) |-> remote.files[d].data]

\* the exceptions of _parse_filings that its except clause lets through
ParseExceptions == {"KeyError", "TypeError", "AttributeError"}

\* the number of documents whose filings reached all_filings
NumAppended ==
    IF error \in ParseExceptions THEN Len(diagnostics) - 1 ELSE Len(diagnostics)

WasSkipped(d, i) == \E k \in 1..Len(diagnostics[d]) : diagnostics[d][k].i = i

\* the indices of document d that no warning names, in index order
EmittedOf(d) ==
    SelectSeq([i \in 1..Len(Documents[d]["accessionNumber"].a) |-> <<d, i>>],
              LAMBDA x : ~WasSkipped(x[1], x[2]))

RECURSIVE SourcesUpTo(_)
SourcesUpTo(d) == IF d = 0 THEN <<>> ELSE SourcesUpTo(d - 1) \o EmittedOf(d)

\* for each filing of all_filings, the document and index it was read from
Sources == SourcesUpTo(NumAppended)

RECURSIVE NormalizedUpTo(_)
NormalizedUpTo(d) ==
    IF d = 0 THEN <<>>
    ELSE NormalizedUpTo(d - 1) \o ParseFilings(Documents[d]).filings

NoFilters == start_date = <<>> /\ end_date = <<>> /\ forms = <<>> /\ limit = <<>>

\* a value that is there and not empty
NonEmpty(block, col, i) ==
    /\ block[col].present
    /\ i <= Len(block[col].a)
    /\ block[col].a[i] \notin {JNull, JStr(<<>>), JInt(0)}

RequiredWellFormed(block, i) ==
    /\ \A c \in Required : block[c].present /\ i <= Len(block[c].a)
    /\ block["accessionNumber"].a[i].t = "str"
    /\ block["form"].a[i].t = "str"
    /\ block["filingDate"].a[i].t = "str"
    /\ StrpDate(block["filingDate"].a[i].s).ok
    /\ block["acceptanceDateTime"].a[i].t = "str"
    /\ StrpTimestamp(Replace(block["acceptanceDateTime"].a[i].s, Millis, UtcOffset)).ok
    /\ ValidInt(block["size"].a[i])

\* the columns with a default hold, at i, a value of their type or nothing
DefaultedWellFormed(block, i) ==
    /\ \A c \in Defaulted : block[c].present => i <= Len(block[c].a)
    /\ \A c \in {"primaryDocument", "primaryDocDescription"} :
          block[c].present => block[c].a[i].t = "str"

\* the columns reportDate, act and items hold, at i, a value of their type
\* or nothing
ConditionalWellFormed(block, i) ==
    /\ NonEmpty(block, "reportDate", i) =>
          /\ block["reportDate"].a[i].t = "str"
          /\ StrpDate(block["reportDate"].a[i].s).ok
    /\ NonEmpty(block, "act", i) => block["act"].a[i].t = "str"
    /\ NonEmpty(block, "items", i) => block["items"].a[i].t = "str"

\* every column other than the required ones is whole and of its type
OptionalColumnsClean(block) ==
    \A c \in Columns \ Required :
        /\ block[c].present
        /\ Len(block[c].a) = Len(block["accessionNumber"].a)
        /\ \A i \in 1..Len(block[c].a) :
              block[c].a[i].t = (IF c \in {"isXBRL", "isInlineXBRL"} THEN "int" ELSE "str")
        /\ \A i \in 1..Len(block[c].a) :
              c = "reportDate" => ~NonEmpty(block, c, i) \/ StrpDate(block[c].a[i].s).ok

\* the comma-free stretches of raw, by their places: stretch b runs from
\* after boundary b (0 or the place of a comma) to before the next one
Boundaries(raw) == {0, Len(raw) + 1} \cup {k \in 1..Len(raw) : raw[k] = ","}

NextBoundary(raw, b) ==
    CHOOSE n \in Boundaries(raw) :
        n > b /\ \A m \in Boundaries(raw) : m > b => n <= m

Inked(raw, b) ==
    {k \in (b + 1)..(NextBoundary(raw, b) - 1) : raw[k] \notin Whitespace}

Least(S) == CHOOSE x \in S : \A y \in S : x <= y

Greatest(S) == CHOOSE x \in S : \A y \in S : x >= y

KeptStretches(raw) == {b \in Boundaries(raw) \ {Len(raw) + 1} : Inked(raw, b) # {}}

\* the pieces of raw between commas, trimmed, without the blank ones
TrimmedPieces(raw) ==
    [m \in 1..Cardinality(KeptStretches(raw)) |->
        LET b == CHOOSE x \in KeptStretches(raw) :
                    Cardinality({y \in KeptStretches(raw) : y < x}) = m - 1
        IN  SubSeq(raw, Least(Inked(raw, b)), Greatest(Inked(raw, b)))]

\* a text that is a decimal numeral: blanks around, one optional sign, then
\* digits, where an underscore may stand between two digits
IsNumeral(s) ==
    \E lo, hi \in 1..Len(s) :
        /\ lo <= hi
        /\ \A k \in 1..Len(s) : (k < lo \/ k > hi) => s[k] \in Whitespace
        /\ s[lo] \in Digits \cup {"+", "-"}
        /\ s[hi] \in Digits
        /\ \A k \in (lo + 1)..hi : s[k] \in Digits \cup {"_"}
        /\ \A k \in (lo + 1)..hi : s[k] = "_" => s[k - 1] \in Digits /\ s[k + 1] \in Digits

NonNumeric(c) == ~IsNumeral(c)

\* the filings that pass the filters that are given
Included(f) ==
    /\ (start_date # <<>> => ~DtLess(f.filing_date, start_date[1]))
    /\ (end_date # <<>> => ~DtLess(end_date[1], f.filing_date))
    /\ (forms # <<>> => \E k \in 1..Len(forms[1]) : forms[1][k] = f.form)

Passing == SelectSeq(all_filings, Included)

Min(a, b) == IF a <= b THEN a ELSE b

Urls == [k \in 1..Len(fetchLog) |-> fetchLog[k].url]

AllUrls ==
    <<PrimaryUrl(normalized_cik)>>
    \o [d \in 1..Len(remote.files) |-> FileUrl(remote.files[d].name)]

(***************************************************************************)
(* The claims                                                              *)
(***************************************************************************)

\* C1: a call that returns, made with no start_date, end_date, forms or
\* limit, returns the normalizer's output for filings.recent followed by its
\* output for each overflow file in the listed order; within a document the
\* records keep their index order, none re-sorted, duplicated or dropped
\* (the accession numbers returned are those of the records no warning
\* names, document by document and index by index).
C1_ResultIsConcatenation ==
    (pc = "done" /\ NoFilters) =>
        /\ result[1] = NormalizedUpTo(Len(Documents))
        /\ Len(result[1]) = Len(Sources)
        /\ \A k \in 1..Len(result[1]) :
              result[1][k].accession_number
                  = Documents[Sources[k][1]]["accessionNumber"].a[Sources[k][2]].s

C1_Witness ==
    /\ pc = "done"
    /\ NoFilters
    /\ Len(remote.files) = 2
    /\ Len(result[1]) = 2
    /\ result[1][1].accession_number = Accession(1, 1)
    /\ result[1][2].accession_number = Accession(2, 1)
    /\ Len(diagnostics[1]) = 0

\* C2: once the primary document is fetched, a lookup or conversion failure
\* of a required field at index i skips record i alone: no exception reaches
\* the caller, and every record is either emitted or named by a warning.
C2_BadRecordIsSkippedAlone ==
    (/\ Len(fetchLog) = 1
     /\ fetchLog[1].ok
     /\ OptionalColumnsClean(remote.recent)) =>
        /\ error = "none"
        /\ Len(all_filings) + Len(diagnostics[1])
              = Len(remote.recent["accessionNumber"].a)
        /\ \A i \in 1..Len(remote.recent["accessionNumber"].a) :
              RequiredWellFormed(remote.recent, i) => ~WasSkipped(1, i)

\* C3: with a limit >= 0 the call returns exactly the first min(limit, m)
\* of the m filings that pass the date and form filters (here for the calls
\* whose forms argument is not an empty list).
C3_LimitCapsResult ==
    (pc = "done" /\ limit # <<>> /\ limit[1] >= 0 /\ forms # <<<<>>>>) =>
        result[1] = SubSeq(Passing, 1, Min(limit[1], Len(Passing)))

\* C4: with no limit the call returns exactly the filings, in their order,
\* dated on or after start_date (if given), on or before end_date (if given)
\* and of a form in forms (if given, an empty collection included).
C4_FilterIsExactSubsequence ==
    (pc = "done" /\ limit = <<>>) => result[1] = Passing

\* C5: a fetch that fails ends the call in an error: it is the last fetch of
\* the call, nothing is returned, and the call has raised the HTTP error.
C5_FetchFailureIsFatal ==
    \A k \in 1..Len(fetchLog) :
        ~fetchLog[k].ok =>
            /\ k = Len(fetchLog)
            /\ pc = "raised"
            /\ error = "HTTPError"
            /\ result = <<>>

C5_Witness ==
    /\ Len(fetchLog) = 2
    /\ ~fetchLog[2].ok
    /\ Len(remote.files) = 2
    /\ Len(all_filings) > 0
    /\ pc = "raised"

\* C6: a non-numeric identifier is rejected before any fetch: no call is
\* ever made to the fetcher, nothing is returned, and the call ends in the
\* ValueError of int().
C6_NonNumericRejectedBeforeFetch ==
    NonNumeric(cik) =>
        /\ fetchLog = <<>>
        /\ result = <<>>
        /\ pc \in {"start", "raised"}
        /\ (pc = "raised" => error = "ValueError")

C6_Witness ==
    /\ pc = "raised"
    /\ error = "ValueError"
    /\ NonNumeric(cik)
    /\ cik = <<"7", "x">>
    /\ fetchLog = <<>>

\* C7: the identifier in the primary request of an accepted call is exactly
\* 10 characters, all decimal digits, the value of the identifier padded
\* with zeros on the left.
C7_NormalizedIsTenDigits ==
    Len(fetchLog) >= 1 =>
        /\ fetchLog[1].url = PrimaryUrl(normalized_cik)
        /\ Len(normalized_cik) = 10
        /\ IsDigits(normalized_cik)
        /\ LStripZeros(normalized_cik) = PyIntOfText(cik).mag

C9_ItemsSplitTrimmed ==
    /\ Len(all_filings) = Len(Sources)
    /\ \A k \in 1..Len(all_filings) :
          all_filings[k].items # <<>> =>
              LET its == all_filings[k].items[1]
                  raw == Documents[Sources[k][1]]["items"].a[Sources[k][2]].s
              IN  /\ its = TrimmedPieces(raw)
                  /\ \A j \in 1..Len(its) :
                        /\ Len(its[j]) > 0
                        /\ its[j][1] \notin Whitespace
                        /\ its[j][Len(its[j])] \notin Whitespace

\* the raw value "a, ," gives the one item "a"
C9_Witness ==
    /\ pc = "done"
    /\ Len(all_filings) = 1
    /\ remote.recent["items"].a = <<JStr(<<"a", ",", " ", ",">>)>>
    /\ all_filings[1].items = << <<<<"a">>>> >>

\* C10: a call of an accepted identifier in which no fetch fails fetches
\* the primary document and then every overflow file, each once and in the
\* listed order, whatever the filters; nothing is returned before the last.
C10_AllFilesFetchedInOrder ==
    /\ \A k \in 1..Len(fetchLog) : k <= Len(AllUrls) /\ fetchLog[k].url = AllUrls[k]
    /\ (/\ pc \in {"done", "raised"}
        /\ Len(fetchLog) >= 1
        /\ \A k \in 1..Len(fetchLog) : fetchLog[k].ok) => Urls = AllUrls

=============================================================================
